---- MODULE Spec2Model ----
(***************************************************************************)
(* Job-Portal-Backend: the job store, the application store, the           *)
(* application status state machine and the ownership checks that gate     *)
(* every mutating request.                                                 *)
(*                                                                         *)
(* Five specifications share the variables:                                *)
(*   Spec           every request handler runs as one atomic step; jobs    *)
(*                  are created and deleted, applications filed and moved  *)
(*   SpecJobs       every job handler runs as one atomic step; jobs are    *)
(*                  created, updated and deleted                           *)
(*   SpecConc       ApplyForJob and UpdateApplicationStatus run as         *)
(*                  separate store reads/writes that interleave            *)
(*   SpecSignUp     SignUp runs atomically or as its lookup and its insert *)
(*                  interleaved with those of another SignUp               *)
(*   SpecTransition isValidStatusTransition applied to arbitrary pairs     *)
(***************************************************************************)
EXTENDS Integers, FiniteSets, Sequences, TLC

\* ---------------------------------------------------------------- bounds
MaxCompanies == 3
MaxApplicants == 1
MaxJobs == 1
MaxApps == 2
MaxJobWrites == 1

\* ------------------------------------------------------------- constants
StatusApplied == "Applied"
StatusReviewed == "Reviewed"
StatusInterview == "Interview"
StatusRejected == "Rejected"
StatusHired == "Hired"

Statuses == {StatusApplied, StatusReviewed, StatusInterview, StatusRejected, StatusHired}

\* strings a status may hold as a loosely typed Go string
AnyStatus == Statuses \cup {"", "Pending", "applied"}

Applicant == "applicant"
Company == "company"
Roles == {Applicant, Company}

\* a nil pointer / BSON null
NULL == "<nil>"
Texts == {"a"}

\* the addresses sign-up requests carry when they may collide
SomeEmails == {1, 2}

\* the password every sign-up request carries, and the passwords of login
\* requests
SignUpPassword == "Secret1!"
Passwords == {SignUpPassword, "Wrong1!"}

\* a well-formed ObjectID hex string that no job was ever stored under
GhostID == 0
\* a string that primitive.ObjectIDFromHex rejects
BadHex == -1

\* ObjectIDs are opaque and unique.  A user is named by its role and its
\* rank among the users of that role (companies even, applicants odd), an
\* application by its applicant, its job and its rank among the applications
\* of that pair, a job by its rank among the jobs ever created.
UserID(role, k) == IF role = Company THEN 2 * k ELSE 2 * k - 1
ApplicationID(applicantID, jobID, k) == <<applicantID, jobID, k>>
GhostApplicationID == ApplicationID(GhostID, GhostID, GhostID)
BadApplicationID == ApplicationID(BadHex, BadHex, BadHex)

Procs == {1, 2}

VARIABLES users, jobs, jobSeq, apps, procs, trans

vars == <<users, jobs, jobSeq, apps, procs, trans>>

\* ------------------------------------------------------------ responses
\* the status code and the "message" field of the JSON body a handler writes
Response(op, http, message) == [op |-> op, http |-> http, message |-> message]

IdleProc ==
    [pc |-> "idle", actor |-> 0, jobID |-> 0, applicationID |-> GhostApplicationID,
     req |-> "", read |-> "", message |-> "", data |-> "", role |-> "", email |-> 0]

NoTrans == [current |-> "", requested |-> "", result |-> FALSE, done |-> FALSE]

\* ------------------------------------------------------- pure functions
isValidStatusTransition_NoTerminal(currentStatus, newStatus) ==
    CASE currentStatus = StatusApplied ->
            newStatus \in {StatusReviewed, StatusInterview, StatusRejected, StatusHired}
      [] currentStatus = StatusReviewed ->
            newStatus \in {StatusInterview, StatusRejected, StatusHired}
      [] currentStatus = StatusInterview ->
            newStatus \in {StatusHired, StatusRejected}
      [] currentStatus = StatusRejected ->
            newStatus \in {StatusReviewed}
      [] OTHER -> FALSE

isValidStatusTransition_Backward(currentStatus, newStatus) ==
    CASE currentStatus = StatusApplied ->
            newStatus \in {StatusReviewed, StatusInterview, StatusRejected, StatusHired}
      [] currentStatus = StatusReviewed ->
            newStatus \in {StatusInterview, StatusRejected, StatusHired}
      [] currentStatus = StatusInterview ->
            newStatus \in {StatusReviewed, StatusHired, StatusRejected}
      [] currentStatus \in {StatusHired, StatusRejected} -> FALSE
      [] OTHER -> FALSE

isValidStatusTransition_FailOpen(currentStatus, newStatus) ==
    CASE currentStatus = StatusApplied ->
            newStatus \in {StatusReviewed, StatusInterview, StatusRejected, StatusHired}
      [] currentStatus = StatusReviewed ->
            newStatus \in {StatusInterview, StatusRejected, StatusHired}
      [] currentStatus = StatusInterview ->
            newStatus \in {StatusHired, StatusRejected}
      [] currentStatus \in {StatusHired, StatusRejected} -> FALSE
      [] OTHER -> newStatus \in Statuses

isValidStatusTransition(currentStatus, newStatus) ==
    CASE currentStatus = StatusApplied ->
            newStatus \in {StatusReviewed, StatusInterview, StatusRejected, StatusHired}
      [] currentStatus = StatusReviewed ->
            newStatus \in {StatusInterview, StatusRejected, StatusHired}
      [] currentStatus = StatusInterview ->
            newStatus \in {StatusHired, StatusRejected}
      [] currentStatus \in {StatusHired, StatusRejected} -> FALSE
      [] OTHER -> FALSE

IsObjectIDHex(id) == id # BadHex

IsApplicationIDHex(id) == id # BadApplicationID

\* ---------------------------------------------------------- repositories
\* jobRepository.GetJobByID: a missing document is (nil, nil), not an error
jobRepo_GetJobByID(id) ==
    IF ~IsObjectIDHex(id) THEN [err |-> "invalid hex", isNil |-> TRUE]
    ELSE IF id \in DOMAIN jobs THEN [err |-> NULL, isNil |-> FALSE]
    ELSE [err |-> NULL, isNil |-> TRUE]

jobRepo_JobBelongsToUser_AnyUser(jobID, userID) ==
    IF ~IsObjectIDHex(jobID) THEN [err |-> "invalid hex", belongs |-> FALSE]
    ELSE [err |-> NULL, belongs |-> jobID \in DOMAIN jobs]

jobRepo_JobBelongsToUser(jobID, userID) ==
    IF ~IsObjectIDHex(jobID) THEN [err |-> "invalid hex", belongs |-> FALSE]
    ELSE [err |-> NULL,
          belongs |-> jobID \in DOMAIN jobs /\ jobs[jobID].createdBy = userID]

jobRepo_CreateJob(job) ==
    (jobSeq + 1 :> [job EXCEPT !.updatedAt = 0]) @@ jobs

jobRepo_UpdateJob(id, update) ==
    IF id \in DOMAIN jobs
    THEN [jobs EXCEPT ![id] = [@ EXCEPT !.title = update.title,
                                        !.description = update.description,
                                        !.location = update.location,
                                        !.updatedAt = @ + 1]]
    ELSE jobs

jobRepo_DeleteJob(id) == [j \in DOMAIN jobs \ {id} |-> jobs[j]]

\* userRepository.FindByEmail: the stored users with the address
userRepo_FindByEmail(email) == {u \in DOMAIN users : users[u].email = email}

\* primitive.ObjectID the driver generates for an inserted user
NewUserID(role) ==
    UserID(role, 1 + Cardinality({u \in DOMAIN users : users[u].role = role}))

\* bcrypt.GenerateFromPassword, the salt left out
HashPassword(password) == [alg |-> "bcrypt", of |-> password]

\* utils.CheckPassword: TRUE when the hash was made from the password
CheckPassword(password, hash) == hash = HashPassword(password)

\* userRepository.CreateUser: InsertOne into a collection on which no code
\* of the repository creates an index, so no insert fails on a duplicate key
userRepo_CreateUser(user) ==
    (NewUserID(user.role) :> [user EXCEPT !.password = HashPassword(@)]) @@ users

appRepo_GetApplicationByID(id) ==
    IF ~IsApplicationIDHex(id) THEN [err |-> "invalid application ID", isNil |-> TRUE]
    ELSE IF id \in DOMAIN apps THEN [err |-> NULL, isNil |-> FALSE]
    ELSE [err |-> "application not found", isNil |-> TRUE]

appRepo_GetApplicationByApplicantAndJob_WrongField(applicantID, jobID) ==
    IF ~IsObjectIDHex(jobID) THEN [err |-> "invalid job ID", isNil |-> TRUE]
    ELSE [err |-> NULL, isNil |-> TRUE]

appRepo_GetApplicationByApplicantAndJob_SkipRejected(applicantID, jobID) ==
    IF ~IsObjectIDHex(jobID) THEN [err |-> "invalid job ID", isNil |-> TRUE]
    ELSE [err |-> NULL,
          isNil |-> ~\E i \in DOMAIN apps :
                        /\ apps[i].applicantID = applicantID /\ apps[i].jobID = jobID
                        /\ apps[i].status # StatusRejected]

appRepo_GetApplicationByApplicantAndJob(applicantID, jobID) ==
    IF ~IsObjectIDHex(jobID) THEN [err |-> "invalid job ID", isNil |-> TRUE]
    ELSE [err |-> NULL,
          isNil |-> ~\E i \in DOMAIN apps :
                        apps[i].applicantID = applicantID /\ apps[i].jobID = jobID]

\* primitive.NewObjectID() for an application record
NewApplicationID(application) ==
    ApplicationID(application.applicantID, application.jobID,
                  1 + Cardinality({i \in DOMAIN apps :
                                      /\ apps[i].applicantID = application.applicantID
                                      /\ apps[i].jobID = application.jobID}))

appRepo_CreateApplication_KeepStatus(application) ==
    (NewApplicationID(application) :> application) @@ apps

appRepo_CreateApplication_Unique(application) ==
    IF \E i \in DOMAIN apps : /\ apps[i].applicantID = application.applicantID
                              /\ apps[i].jobID = application.jobID
    THEN apps
    ELSE (NewApplicationID(application)
             :> [application EXCEPT !.status = StatusApplied]) @@ apps

appRepo_CreateApplication(application) ==
    (NewApplicationID(application) :> [application EXCEPT !.status = StatusApplied]) @@ apps

appRepo_UpdateApplicationStatus_Revalidate(id, status) ==
    IF id \in DOMAIN apps /\ isValidStatusTransition(apps[id].status, status)
    THEN [apps EXCEPT ![id] = [@ EXCEPT !.status = status]]
    ELSE apps

appRepo_UpdateApplicationStatus_Replace(id, status) ==
    IF id \in DOMAIN apps
    THEN [apps EXCEPT ![id] = [@ EXCEPT !.status = status, !.resumeLink = "",
                                        !.coverLetter = ""]]
    ELSE apps

appRepo_UpdateApplicationStatus(id, status) ==
    IF id \in DOMAIN apps
    THEN [apps EXCEPT ![id] = [@ EXCEPT !.status = status]]
    ELSE apps

\* ------------------------------------------------------------ use cases
\* the ownership test job.CreatedBy == companyID of the application use case
JobCreatedBy_AnyCompany(jobID, companyID) == TRUE

JobCreatedBy(jobID, companyID) == jobs[jobID].createdBy = companyID

\* the record applicationUseCase.ApplyForJob builds before the insert
NewApplication(applicantID, jobID) ==
    [applicantID |-> applicantID, jobID |-> jobID, resumeLink |-> "resume",
     coverLetter |-> "cover", status |-> StatusApplied]

\* the authenticated identity and role a request carries in its token
Actors == DOMAIN users
RoleOf(actor) == users[actor].role

JobIdInputs == (1 .. jobSeq) \cup {GhostID, BadHex}
AppIdInputs == DOMAIN apps \cup {GhostApplicationID, BadApplicationID}

UpdateJobRequests ==
    [title : Texts \cup {NULL}, description : Texts \cup {NULL},
     location : Texts \cup {NULL}, isPublished : {NULL, "true", "false"}]

\* the status strings the atomic specification draws
SomeStatuses == Statuses \cup {"", "Pending"}

\* ------------------------------------------------- handler results
\* What a handler (controller, then use case) answers and stores when it
\* runs from the current state without interruption.
CreateJobResult_AnyRole(actor, title, description, location, isPublished) ==
    [resp |-> Response("CreateJob", 201, "Job created successfully"),
     jobs |-> jobRepo_CreateJob([createdBy |-> actor, title |-> title,
                                 description |-> description,
                                 location |-> location,
                                 isPublished |-> FALSE, updatedAt |-> 0])]

CreateJobResult(actor, title, description, location, isPublished) ==
    IF RoleOf(actor) # Company
    THEN [resp |-> Response("CreateJob", 403, "Forbidden"), jobs |-> jobs]
    ELSE [resp |-> Response("CreateJob", 201, "Job created successfully"),
          jobs |-> jobRepo_CreateJob([createdBy |-> actor, title |-> title,
                                      description |-> description,
                                      location |-> location,
                                      isPublished |-> FALSE, updatedAt |-> 0])]

UpdateJobResult_NoFieldCheck(actor, jobID, req) ==
    LET belongs == jobRepo_JobBelongsToUser(jobID, actor) IN
    IF RoleOf(actor) # Company
    THEN [resp |-> Response("UpdateJob", 403, "Forbidden"), jobs |-> jobs,
          errors |-> "Only company users can update jobs"]
    ELSE IF belongs.err # NULL
    THEN [resp |-> Response("UpdateJob", 500, "Failed to update job"), jobs |-> jobs,
          errors |-> belongs.err]
    ELSE IF ~belongs.belongs
    THEN [resp |-> Response("UpdateJob", 500, "Failed to update job"), jobs |-> jobs,
          errors |-> "unauthorized"]
    ELSE [resp |-> Response("UpdateJob", 200, "Job updated successfully"),
          jobs |-> jobRepo_UpdateJob(jobID, req), errors |-> NULL]

\* errors is the Errors list of the JSON body
UpdateJobResult(actor, jobID, req) ==
    LET belongs == jobRepo_JobBelongsToUser(jobID, actor) IN
    IF RoleOf(actor) # Company
    THEN [resp |-> Response("UpdateJob", 403, "Forbidden"), jobs |-> jobs,
          errors |-> "Only company users can update jobs"]
    ELSE IF /\ req.title = NULL /\ req.description = NULL
            /\ req.location = NULL /\ req.isPublished = NULL
    THEN [resp |-> Response("UpdateJob", 400, "No fields to update"), jobs |-> jobs,
          errors |-> NULL]
    ELSE IF belongs.err # NULL
    THEN [resp |-> Response("UpdateJob", 500, "Failed to update job"), jobs |-> jobs,
          errors |-> belongs.err]
    ELSE IF ~belongs.belongs
    THEN \* errors.New("unauthorized") matches no case of the controller's switch
         [resp |-> Response("UpdateJob", 500, "Failed to update job"), jobs |-> jobs,
          errors |-> "unauthorized"]
    ELSE [resp |-> Response("UpdateJob", 200, "Job updated successfully"),
          jobs |-> jobRepo_UpdateJob(jobID, req), errors |-> NULL]

DeleteJobResult(actor, jobID) ==
    LET job == jobRepo_GetJobByID(jobID) IN
    IF RoleOf(actor) # Company
    THEN [resp |-> Response("DeleteJob", 403, "Forbidden"), jobs |-> jobs]
    ELSE IF job.err # NULL
    THEN [resp |-> Response("DeleteJob", 500, "Failed to delete job"), jobs |-> jobs]
    ELSE IF job.isNil
    THEN \* job.CreatedBy on a nil *Job: the handler panics, gin recovers
         [resp |-> Response("DeleteJob", 500, "panic"), jobs |-> jobs]
    ELSE IF jobs[jobID].createdBy # actor
    THEN [resp |-> Response("DeleteJob", 500, "Failed to delete job"), jobs |-> jobs]
    ELSE [resp |-> Response("DeleteJob", 200, "Job deleted successfully"),
          jobs |-> jobRepo_DeleteJob(jobID)]

ApplyForJobResult_AnyRole(actor, jobID) ==
    LET job == jobRepo_GetJobByID(jobID)
        existingApp == appRepo_GetApplicationByApplicantAndJob(actor, jobID)
    IN
    IF job.err # NULL
    THEN [resp |-> Response("ApplyForJob", 500, "Failed to submit application"),
          apps |-> apps]
    ELSE IF existingApp.err # NULL
    THEN [resp |-> Response("ApplyForJob", 500, "Failed to submit application"),
          apps |-> apps]
    ELSE IF ~existingApp.isNil
    THEN [resp |-> Response("ApplyForJob", 400, "You have already applied for this job"),
          apps |-> apps]
    ELSE [resp |-> Response("ApplyForJob", 201, "Successfully applied for the job"),
          apps |-> appRepo_CreateApplication(NewApplication(actor, jobID))]

ApplyForJobResult(actor, jobID) ==
    LET job == jobRepo_GetJobByID(jobID)
        existingApp == appRepo_GetApplicationByApplicantAndJob(actor, jobID)
    IN
    IF RoleOf(actor) # Applicant
    THEN [resp |-> Response("ApplyForJob", 403, "Forbidden"), apps |-> apps]
    ELSE IF job.err # NULL
    THEN [resp |-> Response("ApplyForJob", 500, "Failed to submit application"),
          apps |-> apps]
    ELSE IF existingApp.err # NULL
    THEN [resp |-> Response("ApplyForJob", 500, "Failed to submit application"),
          apps |-> apps]
    ELSE IF ~existingApp.isNil
    THEN [resp |-> Response("ApplyForJob", 400, "You have already applied for this job"),
          apps |-> apps]
    ELSE [resp |-> Response("ApplyForJob", 201, "Successfully applied for the job"),
          apps |-> appRepo_CreateApplication(NewApplication(actor, jobID))]

GetJobApplicationsResult_AnyCompany(actor, jobID) ==
    LET job == jobRepo_GetJobByID(jobID)
        Reject(http, message) ==
            [resp |-> Response("GetJobApplications", http, message), data |-> {}]
    IN
    IF RoleOf(actor) # Company THEN Reject(403, "Forbidden")
    ELSE IF job.err # NULL THEN Reject(500, "Failed to retrieve job applications")
    ELSE IF job.isNil THEN Reject(500, "panic")
    ELSE [resp |-> Response("GetJobApplications", 200,
                            "Successfully retrieved job applications"),
          data |-> {i \in DOMAIN apps : apps[i].jobID = jobID}]

\* applicationUseCase.GetJobApplications behind its controller: a read; data
\* is the set of applications listed
GetJobApplicationsResult(actor, jobID) ==
    LET job == jobRepo_GetJobByID(jobID)
        Reject(http, message) ==
            [resp |-> Response("GetJobApplications", http, message), data |-> {}]
    IN
    IF RoleOf(actor) # Company THEN Reject(403, "Forbidden")
    ELSE IF job.err # NULL THEN Reject(500, "Failed to retrieve job applications")
    \* job.CreatedBy on a nil *Job: the handler panics, gin recovers
    ELSE IF job.isNil THEN Reject(500, "panic")
    ELSE IF jobs[jobID].createdBy # actor THEN Reject(400, "Forbidden")
    ELSE [resp |-> Response("GetJobApplications", 200,
                            "Successfully retrieved job applications"),
          data |-> {i \in DOMAIN apps : apps[i].jobID = jobID}]

\* JobController.GetJobDetails over jobUseCase.GetJobByID: a read; data is
\* the id of the job in the answer, NULL when the answer carries none
GetJobDetailsResult(actor, jobID) ==
    LET job == jobRepo_GetJobByID(jobID)
        Reject(http, message) ==
            [resp |-> Response("GetJobDetails", http, message), data |-> NULL]
    IN
    IF job.err # NULL THEN Reject(500, "Failed to retrieve job details")
    \* job.IsPublished on a nil *Job: the handler panics, gin recovers
    ELSE IF job.isNil THEN Reject(500, "panic")
    ELSE IF ~jobs[jobID].isPublished /\ jobs[jobID].createdBy # actor
    THEN Reject(404, "Job not found")
    ELSE [resp |-> Response("GetJobDetails", 200, "Job retrieved successfully"),
          data |-> jobID]

UpdateApplicationStatusResult_AnyChange(actor, applicationID, status) ==
    LET application == appRepo_GetApplicationByID(applicationID)
        Reject(http, message) ==
            [resp |-> Response("UpdateApplicationStatus", http, message), apps |-> apps]
    IN
    IF RoleOf(actor) # Company THEN Reject(403, "Forbidden")
    ELSE IF status = "" THEN Reject(400, "Validation failed")
    ELSE IF application.err = "invalid application ID"
    THEN Reject(400, "Application not found")
    ELSE IF application.err # NULL
    THEN Reject(500, "Failed to update application status")
    ELSE LET job == jobRepo_GetJobByID(apps[applicationID].jobID) IN
         IF job.err # NULL THEN Reject(500, "Failed to update application status")
         ELSE IF job.isNil THEN Reject(500, "panic")
         ELSE IF ~JobCreatedBy(apps[applicationID].jobID, actor)
         THEN Reject(400, "Forbidden")
         ELSE IF status = apps[applicationID].status
         THEN Reject(400, "Invalid status transition")
         ELSE [resp |-> Response("UpdateApplicationStatus", 200,
                                 "Application status updated successfully"),
               apps |-> appRepo_UpdateApplicationStatus(applicationID, status)]

UpdateApplicationStatusResult_TransitionFirst(actor, applicationID, status) ==
    LET application == appRepo_GetApplicationByID(applicationID)
        Reject(http, message) ==
            [resp |-> Response("UpdateApplicationStatus", http, message), apps |-> apps]
    IN
    IF RoleOf(actor) # Company THEN Reject(403, "Forbidden")
    ELSE IF status \notin Statuses THEN Reject(400, "Validation failed")
    ELSE IF application.err = "invalid application ID"
    THEN Reject(400, "Application not found")
    ELSE IF application.err # NULL
    THEN Reject(500, "Failed to update application status")
    ELSE LET job == jobRepo_GetJobByID(apps[applicationID].jobID) IN
         IF job.err # NULL THEN Reject(500, "Failed to update application status")
         ELSE IF job.isNil THEN Reject(500, "panic")
         ELSE IF ~isValidStatusTransition(apps[applicationID].status, status)
         THEN Reject(400, "Invalid status transition")
         ELSE IF ~JobCreatedBy(apps[applicationID].jobID, actor)
         THEN Reject(400, "Forbidden")
         ELSE [resp |-> Response("UpdateApplicationStatus", 200,
                                 "Application status updated successfully"),
               apps |-> appRepo_UpdateApplicationStatus(applicationID, status)]

UpdateApplicationStatusResult_WriteFirst(actor, applicationID, status) ==
    LET application == appRepo_GetApplicationByID(applicationID)
        Reject(http, message) ==
            [resp |-> Response("UpdateApplicationStatus", http, message), apps |-> apps]
    IN
    IF RoleOf(actor) # Company THEN Reject(403, "Forbidden")
    ELSE IF status \notin Statuses THEN Reject(400, "Validation failed")
    ELSE IF application.err = "invalid application ID"
    THEN Reject(400, "Application not found")
    ELSE IF application.err # NULL
    THEN Reject(500, "Failed to update application status")
    ELSE LET job == jobRepo_GetJobByID(apps[applicationID].jobID) IN
         IF job.err # NULL THEN Reject(500, "Failed to update application status")
         ELSE IF job.isNil THEN Reject(500, "panic")
         ELSE IF ~JobCreatedBy(apps[applicationID].jobID, actor)
         THEN Reject(400, "Forbidden")
         ELSE IF ~isValidStatusTransition(apps[applicationID].status, status)
         THEN [resp |-> Response("UpdateApplicationStatus", 400,
                                 "Invalid status transition"),
               apps |-> appRepo_UpdateApplicationStatus(applicationID, status)]
         ELSE [resp |-> Response("UpdateApplicationStatus", 200,
                                 "Application status updated successfully"),
               apps |-> appRepo_UpdateApplicationStatus(applicationID, status)]

UpdateApplicationStatusResult(actor, applicationID, status) ==
    LET application == appRepo_GetApplicationByID(applicationID)
        Reject(http, message) ==
            [resp |-> Response("UpdateApplicationStatus", http, message), apps |-> apps]
    IN
    IF RoleOf(actor) # Company THEN Reject(403, "Forbidden")
    \* validator tag required,oneof; the use case repeats the "" check
    ELSE IF status \notin Statuses THEN Reject(400, "Validation failed")
    ELSE IF application.err = "invalid application ID"
    THEN Reject(400, "Application not found")
    ELSE IF application.err # NULL
    THEN Reject(500, "Failed to update application status")
    ELSE LET job == jobRepo_GetJobByID(apps[applicationID].jobID) IN
         IF job.err # NULL THEN Reject(500, "Failed to update application status")
         \* job.CreatedBy on a nil *Job: the handler panics, gin recovers
         ELSE IF job.isNil THEN Reject(500, "panic")
         ELSE IF ~JobCreatedBy(apps[applicationID].jobID, actor)
         THEN Reject(400, "Forbidden")
         ELSE IF ~isValidStatusTransition(apps[applicationID].status, status)
         THEN Reject(400, "Invalid status transition")
         ELSE [resp |-> Response("UpdateApplicationStatus", 200,
                                 "Application status updated successfully"),
               apps |-> appRepo_UpdateApplicationStatus(applicationID, status)]

\* userUsecase.SignUp behind UserController.SignUp; token is the subject of
\* the JWT in the answer, NULL when the answer carries none
SignUpResult(role, email) ==
    IF userRepo_FindByEmail(email) # {}
    THEN [resp |-> Response("SignUp", 400, "Email already registered"),
          users |-> users, token |-> NULL]
    ELSE [resp |-> Response("SignUp", 201, "User registered successfully"),
          users |-> userRepo_CreateUser([role |-> role, email |-> email,
                                         password |-> SignUpPassword]),
          token |-> NewUserID(role)]

LoginResults_UnknownEmail(email, password) ==
    LET found == userRepo_FindByEmail(email)
        Reject(message) == [resp |-> Response("Login", 401, message), token |-> NULL]
    IN
    IF found = {} THEN {Reject("User not found")}
    ELSE {IF ~CheckPassword(password, users[user].password)
          THEN Reject("Invalid email or password")
          ELSE [resp |-> Response("Login", 200, "Login successful"), token |-> user]
          : user \in found}

\* userUsecase.Login behind UserController.Login: a read.  FindOne returns
\* any one stored user with the address; the set holds the answer for each.
\* token is the subject of the JWT, NULL when the answer carries none
LoginResults(email, password) ==
    LET found == userRepo_FindByEmail(email)
        Reject(message) == [resp |-> Response("Login", 401, message), token |-> NULL]
    IN
    IF found = {} THEN {Reject("Invalid email or password")}
    ELSE {IF ~CheckPassword(password, users[user].password)
          THEN Reject("Invalid email or password")
          ELSE [resp |-> Response("Login", 200, "Login successful"), token |-> user]
          : user \in found}

\* an address no stored user has
FreshEmail(role) == NewUserID(role)

\* the number of users of a role stays within its bound
RoleHasRoom(role) ==
    Cardinality({u \in DOMAIN users : users[u].role = role})
        < (IF role = Company THEN MaxCompanies ELSE MaxApplicants)

\* -------------------------------------------------------------- actions
SignUp(role, email) ==
    /\ LET r == SignUpResult(role, email) IN
       /\ r.users # users => RoleHasRoom(role)
       /\ users' = r.users
    /\ UNCHANGED <<jobs, jobSeq, apps, procs, trans>>

CreateJob(actor, title, description, location, isPublished) ==
    /\ actor \in Actors
    /\ LET r == CreateJobResult(actor, title, description, location, isPublished) IN
       /\ r.jobs # jobs => jobSeq < MaxJobs
       /\ jobs' = r.jobs
       /\ jobSeq' = IF r.jobs # jobs THEN jobSeq + 1 ELSE jobSeq
    /\ UNCHANGED <<users, apps, procs, trans>>

UpdateJob(actor, jobID, req) ==
    /\ actor \in Actors
    /\ LET r == UpdateJobResult(actor, jobID, req) IN
       /\ r.jobs # jobs => jobs[jobID].updatedAt < MaxJobWrites
       /\ jobs' = r.jobs
    /\ UNCHANGED <<users, jobSeq, apps, procs, trans>>

DeleteJob_Cascade(actor, jobID) ==
    /\ actor \in Actors
    /\ LET r == DeleteJobResult(actor, jobID) IN
       /\ jobs' = r.jobs
       /\ apps' = [i \in {k \in DOMAIN apps : apps[k].jobID \in DOMAIN r.jobs} |-> apps[i]]
    /\ UNCHANGED <<users, jobSeq, procs, trans>>

DeleteJob(actor, jobID) ==
    /\ actor \in Actors
    /\ LET r == DeleteJobResult(actor, jobID) IN
       /\ jobs' = r.jobs
    /\ UNCHANGED <<users, jobSeq, apps, procs, trans>>

ApplyForJob(actor, jobID) ==
    /\ actor \in Actors
    /\ LET r == ApplyForJobResult(actor, jobID) IN
       /\ Cardinality(DOMAIN r.apps) <= MaxApps
       /\ apps' = r.apps
    /\ UNCHANGED <<users, jobs, jobSeq, procs, trans>>

UpdateApplicationStatus(actor, applicationID, status) ==
    /\ actor \in Actors
    /\ LET r == UpdateApplicationStatusResult(actor, applicationID, status) IN
       /\ apps' = r.apps
    /\ UNCHANGED <<users, jobs, jobSeq, procs, trans>>

\* ------------------------------------------------------- specification
Init ==
    /\ users = <<>>
    /\ jobs = <<>>
    /\ jobSeq = 0
    /\ apps = <<>>
    /\ procs = [p \in Procs |-> IdleProc]
    /\ trans = NoTrans

Next ==
    \/ \E role \in Roles : SignUp(role, FreshEmail(role))
    \/ \E actor \in Actors, title \in Texts, description \in Texts,
          location \in Texts, isPublished \in BOOLEAN :
          CreateJob(actor, title, description, location, isPublished)
    \/ \E actor \in Actors, jobID \in JobIdInputs : DeleteJob(actor, jobID)
    \/ \E actor \in Actors, jobID \in JobIdInputs : ApplyForJob(actor, jobID)
    \/ \E actor \in Actors, applicationID \in AppIdInputs, status \in SomeStatuses :
          UpdateApplicationStatus(actor, applicationID, status)

Spec == Init /\ [][Next]_vars

\* ------------------------------------------------------ job handlers alone
NextJobs ==
    \/ \E role \in Roles : SignUp(role, FreshEmail(role))
    \/ \E actor \in Actors, title \in Texts, description \in Texts,
          location \in Texts, isPublished \in BOOLEAN :
          CreateJob(actor, title, description, location, isPublished)
    \/ \E actor \in Actors, jobID \in JobIdInputs, req \in UpdateJobRequests :
          UpdateJob(actor, jobID, req)
    \/ \E actor \in Actors, jobID \in JobIdInputs : DeleteJob(actor, jobID)

SpecJobs == Init /\ [][NextJobs]_vars

\* ----------------------------------------------- status transition alone
InitTransition ==
    /\ users = <<>>
    /\ jobs = <<>>
    /\ jobSeq = 0
    /\ apps = <<>>
    /\ procs = [p \in Procs |-> IdleProc]
    /\ trans \in [current : AnyStatus, requested : AnyStatus,
                  result : {FALSE}, done : {FALSE}]

ValidateStatusTransition ==
    /\ ~trans.done
    /\ trans' = [trans EXCEPT
                    !.result = isValidStatusTransition(trans.current, trans.requested),
                    !.done = TRUE]
    /\ UNCHANGED <<users, jobs, jobSeq, apps, procs>>

NextTransition == ValidateStatusTransition

SpecTransition == InitTransition /\ [][NextTransition]_vars

\* ------------------------------------------------ interleaved use cases
\* Each process serves one request; a step is one store read or write
\* together with the local computation that follows it.
Done(p, message, data) ==
    procs' = [procs EXCEPT ![p] = [@ EXCEPT !.pc = "done", !.message = message,
                                            !.data = data]]

Goto(p, pc) == procs' = [procs EXCEPT ![p] = [@ EXCEPT !.pc = pc]]

BeginApplyForJob(p, actor, jobID) ==
    /\ procs[p].pc = "idle"
    /\ actor \in Actors
    /\ procs' = [procs EXCEPT ![p] =
                    [IdleProc EXCEPT !.actor = actor, !.jobID = jobID,
                        !.pc = IF RoleOf(actor) # Applicant THEN "done" ELSE "apply_getjob",
                        !.message = IF RoleOf(actor) # Applicant THEN "Forbidden" ELSE ""]]
    /\ UNCHANGED <<users, jobs, jobSeq, apps, trans>>

ApplyGetJob(p) ==
    /\ procs[p].pc = "apply_getjob"
    /\ IF jobRepo_GetJobByID(procs[p].jobID).err # NULL
       THEN Done(p, "Failed to submit application", "")
       ELSE Goto(p, "apply_check")
    /\ UNCHANGED <<users, jobs, jobSeq, apps, trans>>

ApplyCheckExisting(p) ==
    /\ procs[p].pc = "apply_check"
    /\ LET existingApp ==
              appRepo_GetApplicationByApplicantAndJob(procs[p].actor, procs[p].jobID)
       IN IF existingApp.err # NULL
          THEN Done(p, "Failed to submit application", "")
          ELSE IF ~existingApp.isNil
          THEN Done(p, "You have already applied for this job", "")
          ELSE Goto(p, "apply_create")
    /\ UNCHANGED <<users, jobs, jobSeq, apps, trans>>

ApplyCreate(p) ==
    /\ procs[p].pc = "apply_create"
    /\ Cardinality(DOMAIN apps) < MaxApps
    /\ apps' = appRepo_CreateApplication(NewApplication(procs[p].actor, procs[p].jobID))
    /\ Done(p, "Successfully applied for the job", StatusApplied)
    /\ UNCHANGED <<users, jobs, jobSeq, trans>>

BeginUpdateApplicationStatus(p, actor, applicationID, status) ==
    /\ procs[p].pc = "idle"
    /\ actor \in Actors
    /\ procs' = [procs EXCEPT ![p] =
                    [IdleProc EXCEPT !.actor = actor, !.applicationID = applicationID,
                        !.req = status,
                        !.pc = IF RoleOf(actor) # Company \/ status \notin Statuses
                               THEN "done" ELSE "upd_getapp",
                        !.message = IF RoleOf(actor) # Company THEN "Forbidden"
                                    ELSE IF status \notin Statuses
                                    THEN "Validation failed" ELSE ""]]
    /\ UNCHANGED <<users, jobs, jobSeq, apps, trans>>

UpdGetApplication(p) ==
    /\ procs[p].pc = "upd_getapp"
    /\ LET application == appRepo_GetApplicationByID(procs[p].applicationID) IN
       IF application.err = "invalid application ID"
       THEN Done(p, "Application not found", "")
       ELSE IF application.err # NULL
       THEN Done(p, "Failed to update application status", "")
       ELSE procs' = [procs EXCEPT ![p] =
                         [@ EXCEPT !.pc = "upd_getjob",
                                   !.read = apps[procs[p].applicationID].status,
                                   !.jobID = apps[procs[p].applicationID].jobID]]
    /\ UNCHANGED <<users, jobs, jobSeq, apps, trans>>

UpdGetJob(p) ==
    /\ procs[p].pc = "upd_getjob"
    /\ LET job == jobRepo_GetJobByID(procs[p].jobID) IN
       IF job.err # NULL
       THEN Done(p, "Failed to update application status", "")
       ELSE IF job.isNil
       THEN Done(p, "panic", "")
       ELSE IF ~JobCreatedBy(procs[p].jobID, procs[p].actor)
       THEN Done(p, "Forbidden", "")
       ELSE IF ~isValidStatusTransition(procs[p].read, procs[p].req)
       THEN Done(p, "Invalid status transition", "")
       ELSE Goto(p, "upd_write")
    /\ UNCHANGED <<users, jobs, jobSeq, apps, trans>>

UpdWrite_RecheckJob(p) ==
    /\ procs[p].pc = "upd_write"
    /\ IF procs[p].jobID \in DOMAIN jobs
       THEN /\ apps' = appRepo_UpdateApplicationStatus(procs[p].applicationID,
                                                       procs[p].req)
            /\ Goto(p, "upd_reread")
       ELSE /\ apps' = apps
            /\ Done(p, "Job not found", "")
    /\ UNCHANGED <<users, jobs, jobSeq, trans>>

UpdWrite(p) ==
    /\ procs[p].pc = "upd_write"
    /\ apps' = appRepo_UpdateApplicationStatus(procs[p].applicationID, procs[p].req)
    /\ Goto(p, "upd_reread")
    /\ UNCHANGED <<users, jobs, jobSeq, trans>>

UpdReread(p) ==
    /\ procs[p].pc = "upd_reread"
    /\ Done(p, "Application status updated successfully",
            apps[procs[p].applicationID].status)
    /\ UNCHANGED <<users, jobs, jobSeq, apps, trans>>

\* a company, an applicant, the company's job and at most one application
InitConc ==
    /\ users = (UserID(Company, 1) :> [role |-> Company,
                                       email |-> UserID(Company, 1),
                                       password |-> HashPassword(SignUpPassword)])
                   @@ (UserID(Applicant, 1) :> [role |-> Applicant,
                                                email |-> UserID(Applicant, 1),
                                                password |-> HashPassword(SignUpPassword)])
    /\ jobs = (1 :> [createdBy |-> UserID(Company, 1), title |-> "a",
                     description |-> "a", location |-> "a",
                     isPublished |-> FALSE, updatedAt |-> 0])
    /\ jobSeq = 1
    /\ apps \in {<<>>, (ApplicationID(UserID(Applicant, 1), 1, 1)
                           :> NewApplication(UserID(Applicant, 1), 1))}
    /\ procs = [p \in Procs |-> IdleProc]
    /\ trans = NoTrans

NextConc ==
    \/ \E p \in Procs, actor \in Actors, jobID \in JobIdInputs \ {BadHex} :
          BeginApplyForJob(p, actor, jobID)
    \/ \E p \in Procs : ApplyGetJob(p)
    \/ \E p \in Procs : ApplyCheckExisting(p)
    \/ \E p \in Procs : ApplyCreate(p)
    \/ \E p \in Procs, actor \in Actors, applicationID \in DOMAIN apps,
          status \in Statuses :
          BeginUpdateApplicationStatus(p, actor, applicationID, status)
    \/ \E p \in Procs : UpdGetApplication(p)
    \/ \E p \in Procs : UpdGetJob(p)
    \/ \E p \in Procs : UpdWrite(p)
    \/ \E p \in Procs : UpdReread(p)
    \/ \E jobID \in DOMAIN jobs : DeleteJob(UserID(Company, 1), jobID)

SpecConc == InitConc /\ [][NextConc]_vars

\* ---------------------------------------------------- interleaved sign-up
BeginSignUp(p, role, email) ==
    /\ procs[p].pc = "idle"
    /\ procs' = [procs EXCEPT ![p] = [IdleProc EXCEPT !.pc = "signup_find",
                                                      !.role = role, !.email = email]]
    /\ UNCHANGED <<users, jobs, jobSeq, apps, trans>>

SignUpFindByEmail(p) ==
    /\ procs[p].pc = "signup_find"
    /\ IF userRepo_FindByEmail(procs[p].email) # {}
       THEN Done(p, "Email already registered", "")
       ELSE Goto(p, "signup_create")
    /\ UNCHANGED <<users, jobs, jobSeq, apps, trans>>

SignUpCreateUser(p) ==
    /\ procs[p].pc = "signup_create"
    /\ RoleHasRoom(procs[p].role)
    /\ users' = userRepo_CreateUser([role |-> procs[p].role, email |-> procs[p].email,
                                     password |-> SignUpPassword])
    /\ procs' = [procs EXCEPT ![p] = [@ EXCEPT !.pc = "done",
                                               !.message = "User registered successfully",
                                               !.actor = NewUserID(procs[p].role)]]
    /\ UNCHANGED <<jobs, jobSeq, apps, trans>>

NextSignUp ==
    \/ \E role \in Roles, email \in SomeEmails : SignUp(role, email)
    \/ \E p \in Procs, role \in Roles, email \in SomeEmails : BeginSignUp(p, role, email)
    \/ \E p \in Procs : SignUpFindByEmail(p)
    \/ \E p \in Procs : SignUpCreateUser(p)

SpecSignUp == Init /\ [][NextSignUp]_vars

\* ------------------------------------------------------------ properties
\* C1: isValidStatusTransition(current, requested) is true exactly for
\* Applied->{Reviewed, Interview, Rejected, Hired}, Reviewed->{Interview,
\* Rejected, Hired} and Interview->{Hired, Rejected}; it is false for every
\* other pair, including pairs off the five statuses.
C1_TransitionTableExact ==
    LET table == ({StatusApplied} \X {StatusReviewed, StatusInterview,
                                      StatusRejected, StatusHired})
                 \cup ({StatusReviewed} \X {StatusInterview, StatusRejected, StatusHired})
                 \cup ({StatusInterview} \X {StatusHired, StatusRejected})
    IN trans.done => (trans.result <=> <<trans.current, trans.requested>> \in table)

C1_Witness ==
    /\ trans.done
    /\ trans.current = StatusInterview
    /\ trans.requested = StatusRejected
    /\ trans.result

\* C2: when handlers run one at a time, an application whose stored status is
\* Hired or Rejected keeps that status in every later state.
C2_TerminalAbsorbing ==
    [][\A i \in DOMAIN apps :
          apps[i].status \in {StatusHired, StatusRejected}
              => i \in DOMAIN apps' /\ apps'[i].status = apps[i].status]_vars

C2_Witness ==
    /\ DOMAIN apps # {}
    /\ \A i \in DOMAIN apps : apps[i].status \in {StatusHired, StatusRejected}
    /\ \E actor \in Actors, i \in DOMAIN apps, status \in Statuses :
          UpdateApplicationStatusResult(actor, i, status).resp
              = Response("UpdateApplicationStatus", 400, "Invalid status transition")

\* C3: UpdateApplicationStatus changes a stored status only for the creator
\* of the application's job; any other caller of an existing application
\* under an existing job gets the Forbidden answer and nothing changes.
C3_OnlyJobCreatorChangesStatus ==
    \A actor \in Actors, id \in DOMAIN apps, status \in SomeStatuses :
        LET r == UpdateApplicationStatusResult(actor, id, status)
            j == apps[id].jobID
        IN /\ r.apps # apps => j \in DOMAIN jobs /\ jobs[j].createdBy = actor
           /\ (j \in DOMAIN jobs /\ jobs[j].createdBy # actor /\ status \in Statuses)
                 => r.resp.message = "Forbidden" /\ r.apps = apps

C3_Witness ==
    \E actor \in Actors, i \in DOMAIN apps :
        /\ apps[i].jobID \in DOMAIN jobs
        /\ RoleOf(actor) = Company
        /\ apps[i].status = StatusReviewed
        /\ UpdateApplicationStatusResult(actor, i, StatusInterview).resp
               = Response("UpdateApplicationStatus", 400, "Forbidden")

\* C4: for an existing job j and an actor a, UpdateJob (with a field to
\* update) modifies j and DeleteJob removes j exactly when a is j's creator;
\* for any other actor the job store is unchanged and j is still present.
C4_JobMutationIffCreator ==
    \A a \in Actors, j \in DOMAIN jobs :
        /\ \A req \in UpdateJobRequests :
              (req.title # NULL \/ req.description # NULL
                  \/ req.location # NULL \/ req.isPublished # NULL)
              => LET r == UpdateJobResult(a, j, req) IN
                 /\ (r.jobs # jobs) <=> (a = jobs[j].createdBy)
                 /\ (r.resp.http = 200) <=> (a = jobs[j].createdBy)
                 /\ j \in DOMAIN r.jobs
        /\ LET d == DeleteJobResult(a, j) IN
           /\ (j \notin DOMAIN d.jobs) <=> (a = jobs[j].createdBy)
           /\ (d.resp.http = 200) <=> (a = jobs[j].createdBy)
           /\ a # jobs[j].createdBy => d.jobs = jobs

C4_Witness ==
    /\ \E j \in DOMAIN jobs : jobs[j].updatedAt >= 1
    /\ \E a \in Actors, j \in DOMAIN jobs : RoleOf(a) = Company /\ jobs[j].createdBy # a

\* C5: when handlers run one at a time, no two stored applications have the
\* same applicant and the same job.
C5_OneApplicationPerPair ==
    \A i, k \in DOMAIN apps :
        (apps[i].applicantID = apps[k].applicantID /\ apps[i].jobID = apps[k].jobID)
            => i = k

C5_Witness ==
    /\ Cardinality(DOMAIN apps) >= 2
    /\ \E i \in DOMAIN apps :
          /\ apps[i].jobID \in DOMAIN jobs
          /\ ApplyForJobResult(apps[i].applicantID, apps[i].jobID).apps = apps

\* C6: when the steps of ApplyForJob interleave, two calls for the same
\* applicant and job that both answer success have both inserted: at least
\* two records for the pair are stored.
C6_BothSucceedBothStored ==
    \A p, q \in Procs :
        (/\ p # q
         /\ procs[p].message = "Successfully applied for the job"
         /\ procs[q].message = "Successfully applied for the job"
         /\ procs[p].actor = procs[q].actor
         /\ procs[p].jobID = procs[q].jobID)
        => Cardinality({i \in DOMAIN apps : /\ apps[i].applicantID = procs[p].actor
                                            /\ apps[i].jobID = procs[p].jobID}) >= 2

C6_Witness ==
    \E p, q \in Procs :
        /\ p # q
        /\ procs[p].message = "Successfully applied for the job"
        /\ procs[q].message = "Successfully applied for the job"
        /\ procs[p].actor = procs[q].actor
        /\ procs[p].jobID = procs[q].jobID
        /\ procs[p].jobID \in DOMAIN jobs
        /\ \E i, k \in DOMAIN apps :
              /\ i # k
              /\ apps[i].applicantID = procs[p].actor /\ apps[i].jobID = procs[p].jobID
              /\ apps[k].applicantID = procs[p].actor /\ apps[k].jobID = procs[p].jobID

\* C7: when the steps of UpdateApplicationStatus interleave, the write step
\* stores the requested status whatever status is stored at that moment, so
\* a call validated against a stale read overwrites a later result.
C7_WriteIgnoresStoredStatus ==
    [][\A p \in Procs :
          (procs[p].pc = "upd_write" /\ procs'[p].pc = "upd_reread")
              => apps'[procs[p].applicationID].status = procs[p].req]_vars

C7_Witness ==
    \E p, q \in Procs :
        /\ p # q
        /\ procs[p].message = "Application status updated successfully"
        /\ procs[q].message = "Application status updated successfully"
        /\ procs[p].applicationID = procs[q].applicationID
        /\ procs[p].read = StatusApplied
        /\ procs[q].read = StatusApplied
        /\ procs[p].req = StatusHired
        /\ procs[p].data = StatusHired
        /\ procs[q].req = StatusRejected
        /\ apps[procs[q].applicationID].status = StatusRejected
        /\ ~isValidStatusTransition(procs[p].req, procs[q].req)

\* C8: every application record that appears in the store has status
\* Applied, and the insert stores Applied whatever status the record handed
\* to it carries.
C8_CreatedAsApplied ==
    /\ [][\A i \in DOMAIN apps' \ DOMAIN apps : apps'[i].status = StatusApplied]_vars
    /\ [](\A s \in AnyStatus :
             LET application == [NewApplication(UserID(Applicant, 1), GhostID)
                                    EXCEPT !.status = s]
             IN appRepo_CreateApplication(application)[NewApplicationID(application)].status
                    = StatusApplied)

C8_Witness ==
    /\ Cardinality(DOMAIN apps) = 1
    /\ \E i \in DOMAIN apps : apps[i].status = StatusApplied /\ apps[i].jobID \in DOMAIN jobs

\* C9: ApplyForJob by an applicant who already has an application for the
\* job answers "You have already applied for this job" and stores nothing,
\* whatever the status of the existing application.
C9_DuplicateRejectedAnyStatus ==
    \A actor \in Actors, jobID \in JobIdInputs :
        (\E i \in DOMAIN apps : apps[i].applicantID = actor /\ apps[i].jobID = jobID)
        => LET r == ApplyForJobResult(actor, jobID) IN
           /\ r.resp = Response("ApplyForJob", 400, "You have already applied for this job")
           /\ r.apps = apps

C9_Witness ==
    /\ DOMAIN apps # {}
    /\ \A i \in DOMAIN apps :
          /\ apps[i].status = StatusRejected
          /\ ApplyForJobResult(apps[i].applicantID, apps[i].jobID).resp
                 = Response("ApplyForJob", 400, "You have already applied for this job")

\* C10: ApplyForJob for a well-formed job id that matches no stored job
\* answers "Job not found" and stores no application.
C10_MissingJobRejected ==
    [][\A actor \in Actors, jobID \in JobIdInputs :
          (/\ ApplyForJob(actor, jobID)
           /\ RoleOf(actor) = Applicant
           /\ IsObjectIDHex(jobID)
           /\ jobID \notin DOMAIN jobs)
          => /\ ApplyForJobResult(actor, jobID).resp.message = "Job not found"
             /\ apps' = apps]_vars

\* C11: when handlers run one at a time, every change of a stored status
\* strictly increases its rank in Applied < Reviewed < Interview < {Hired,
\* Rejected} and never yields Applied; a request for Reviewed against an
\* application at Interview changes nothing and, from the job's creator, is
\* answered "Invalid status transition"; no chain of four valid transitions
\* starts at Applied, so an application changes status at most three times.
C11_RankStrictlyIncreases ==
    /\ [][LET Rank(s) == CASE s = StatusApplied -> 0
                          [] s = StatusReviewed -> 1
                          [] s = StatusInterview -> 2
                          [] s \in {StatusHired, StatusRejected} -> 3
                          [] OTHER -> -1
          IN \A i \in DOMAIN apps :
                (i \in DOMAIN apps' /\ apps'[i].status # apps[i].status)
                    => /\ Rank(apps[i].status) >= 0
                       /\ Rank(apps'[i].status) > Rank(apps[i].status)]_vars
    /\ [](\A actor \in Actors, i \in DOMAIN apps :
             apps[i].status = StatusInterview
             => LET r == UpdateApplicationStatusResult(actor, i, StatusReviewed) IN
                /\ r.apps = apps
                /\ (apps[i].jobID \in DOMAIN jobs /\ jobs[apps[i].jobID].createdBy = actor)
                      => r.resp = Response("UpdateApplicationStatus", 400,
                                           "Invalid status transition"))
    /\ [](\A s1 \in Statuses : isValidStatusTransition(StatusApplied, s1) =>
          \A s2 \in Statuses : isValidStatusTransition(s1, s2) =>
          \A s3 \in Statuses : isValidStatusTransition(s2, s3) =>
          \A s4 \in Statuses : ~isValidStatusTransition(s3, s4))

C11_Witness ==
    \E actor \in Actors, i \in DOMAIN apps :
        /\ apps[i].status = StatusInterview
        /\ apps[i].jobID \in DOMAIN jobs
        /\ jobs[apps[i].jobID].createdBy = actor
        /\ UpdateApplicationStatusResult(actor, i, StatusReviewed).resp
               = Response("UpdateApplicationStatus", 400, "Invalid status transition")

\* C12: no two stored users have the same email, also when the lookup and
\* the insert of one SignUp interleave with those of another.
C12_EmailUnique ==
    \A u, v \in DOMAIN users : users[u].email = users[v].email => u = v

\* C13: every stored job's createdBy is a stored user whose role is company;
\* CreateJob stores a job only for an actor with role company, with that
\* actor as createdBy, and answers Forbidden to any other actor.
C13_CreatedByIsCompany ==
    /\ \A j \in DOMAIN jobs :
          jobs[j].createdBy \in DOMAIN users /\ RoleOf(jobs[j].createdBy) = Company
    /\ \A actor \in Actors, isPublished \in BOOLEAN :
          LET r == CreateJobResult(actor, "a", "a", "a", isPublished) IN
          IF RoleOf(actor) = Company
          THEN /\ r.resp.http = 201
               /\ \A j \in DOMAIN r.jobs \ DOMAIN jobs : r.jobs[j].createdBy = actor
               /\ DOMAIN r.jobs # DOMAIN jobs
          ELSE r.resp = Response("CreateJob", 403, "Forbidden") /\ r.jobs = jobs

C13_Witness ==
    /\ \E j \in DOMAIN jobs : jobs[j].updatedAt = 0
    /\ \E actor \in Actors :
          /\ RoleOf(actor) = Applicant
          /\ CreateJobResult(actor, "a", "a", "a", TRUE).resp
                 = Response("CreateJob", 403, "Forbidden")

\* C14: no step removes an application record: every stored application is
\* still stored after the step, also when the step deletes its job.
C14_ApplicationsNeverDeleted ==
    [][DOMAIN apps \subseteq DOMAIN apps']_vars

C14_Witness ==
    \E i \in DOMAIN apps :
        /\ apps[i].jobID \in 1 .. jobSeq
        /\ apps[i].jobID \notin DOMAIN jobs
        /\ apps[i].status = StatusReviewed

\* C15: for a company actor and a request with a field to update, the answer
\* of UpdateJob for a well-formed job id that matches no stored job differs
\* (in status code, message or error list) from its answer for a stored job
\* the actor did not create.
C15_NotFoundDiffersFromUnauthorized ==
    \A actor \in Actors, j \in DOMAIN jobs, missing \in JobIdInputs,
       req \in UpdateJobRequests :
        (/\ RoleOf(actor) = Company
         /\ jobs[j].createdBy # actor
         /\ IsObjectIDHex(missing) /\ missing \notin DOMAIN jobs
         /\ req.title # NULL)
        => LET notFound == UpdateJobResult(actor, missing, req)
               unauthorized == UpdateJobResult(actor, j, req)
           IN <<notFound.resp, notFound.errors>> # <<unauthorized.resp, unauthorized.errors>>

\* C16: an UpdateJob request from a company actor with no title, description,
\* location or published flag is answered "No fields to update" whatever the
\* job id (the actor's own job, another creator's, a missing or malformed id),
\* and the job store, updated timestamps included, is unchanged.
C16_NoFieldsToUpdate ==
    \A actor \in Actors, jobID \in JobIdInputs :
        LET r == UpdateJobResult(actor, jobID,
                     [title |-> NULL, description |-> NULL, location |-> NULL,
                      isPublished |-> NULL])
        IN /\ r.jobs = jobs
           /\ RoleOf(actor) = Company
                 => r.resp = Response("UpdateJob", 400, "No fields to update")

C16_Witness ==
    \E actor \in Actors, j \in DOMAIN jobs :
        /\ jobs[j].createdBy = actor
        /\ jobs[j].updatedAt = 0
        /\ UpdateJobResult(actor, j, [title |-> NULL, description |-> NULL,
                                      location |-> NULL, isPublished |-> NULL]).resp
               = Response("UpdateJob", 400, "No fields to update")
        /\ \E other \in Actors : RoleOf(other) = Company /\ other # actor

\* C17: for a company actor, DeleteJob and GetJobApplications on a
\* well-formed job id that matches no stored job, and UpdateApplicationStatus
\* on an application whose job is no longer stored, answer "Job not found".
C17_MissingJobAnsweredNotFound ==
    \A actor \in Actors :
        RoleOf(actor) = Company
        => /\ \A jobID \in JobIdInputs :
                 (IsObjectIDHex(jobID) /\ jobID \notin DOMAIN jobs)
                 => /\ DeleteJobResult(actor, jobID).resp.message = "Job not found"
                    /\ GetJobApplicationsResult(actor, jobID).resp.message
                           = "Job not found"
           /\ \A i \in DOMAIN apps :
                 apps[i].jobID \notin DOMAIN jobs
                 => UpdateApplicationStatusResult(actor, i, StatusReviewed).resp.message
                        = "Job not found"

\* C18: for a company actor and a valid status, UpdateApplicationStatus on an
\* application id that matches no stored application answers 400
\* "Application not found" and changes no application.
C18_ApplicationNotFound ==
    \A actor \in Actors, applicationID \in AppIdInputs, status \in Statuses :
        (RoleOf(actor) = Company /\ applicationID \notin DOMAIN apps)
        => LET r == UpdateApplicationStatusResult(actor, applicationID, status) IN
           /\ r.resp = Response("UpdateApplicationStatus", 400, "Application not found")
           /\ r.apps = apps

\* C19: every stored application's jobID is the id of a stored job.
C19_ApplicationsReferenceStoredJob ==
    \A i \in DOMAIN apps : apps[i].jobID \in DOMAIN jobs

\* C20: the applicant of every stored application is a stored user whose role
\* is applicant, and ApplyForJob from a company actor is answered Forbidden
\* and stores nothing, whatever the job id.
C20_ApplicantIsApplicant ==
    /\ \A i \in DOMAIN apps :
          /\ apps[i].applicantID \in DOMAIN users
          /\ users[apps[i].applicantID].role = Applicant
    /\ \A actor \in Actors, jobID \in JobIdInputs :
          RoleOf(actor) = Company =>
              LET r == ApplyForJobResult(actor, jobID) IN
              /\ r.apps = apps
              /\ r.resp = Response("ApplyForJob", 403, "Forbidden")

C20_Witness ==
    \E i \in DOMAIN apps, actor \in Actors :
        /\ apps[i].jobID \in DOMAIN jobs
        /\ jobs[apps[i].jobID].createdBy = actor
        /\ apps[i].status = StatusApplied
        /\ ApplyForJobResult(actor, apps[i].jobID).resp
               = Response("ApplyForJob", 403, "Forbidden")

\* C21: an UpdateApplicationStatus call that is not answered with success
\* (wrong role, empty or unknown status, malformed or missing application id,
\* missing job, caller not the job's creator, transition not in the table,
\* requested status equal to the current one) leaves the application store
\* as it was.
C21_FailedUpdateWritesNothing ==
    \A actor \in Actors, applicationID \in AppIdInputs, status \in SomeStatuses :
        LET r == UpdateApplicationStatusResult(actor, applicationID, status) IN
        /\ r.resp.http # 200 => r.apps = apps
        /\ (applicationID \in DOMAIN apps /\ status = apps[applicationID].status)
              => r.resp.http # 200

C21_Witness ==
    \E actor \in Actors, i \in DOMAIN apps :
        /\ apps[i].status = StatusReviewed
        /\ UpdateApplicationStatusResult(actor, i, StatusReviewed)
              = [resp |-> Response("UpdateApplicationStatus", 400,
                                   "Invalid status transition"),
                 apps |-> apps]

\* C22: the write of a successful UpdateApplicationStatus changes the status
\* of the application it targets and nothing else: that application keeps its
\* applicant, job, resume link and cover letter, every other application,
\* every job and every user is as before, and no other step of the call
\* changes a store.
C22_StatusUpdateFrame ==
    [][\A p \in Procs :
          (/\ procs[p].pc \in {"upd_getapp", "upd_getjob", "upd_write", "upd_reread"}
           /\ procs'[p] # procs[p])
          => /\ users' = users
             /\ jobs' = jobs
             /\ DOMAIN apps' = DOMAIN apps
             /\ \A i \in DOMAIN apps :
                   apps'[i] = IF procs[p].pc = "upd_write" /\ i = procs[p].applicationID
                              THEN [apps[i] EXCEPT !.status = procs[p].req]
                              ELSE apps[i]]_vars

C22_Witness ==
    \E p \in Procs, i, k \in DOMAIN apps :
        /\ procs[p].message = "Application status updated successfully"
        /\ procs[p].applicationID = i
        /\ procs[p].data = StatusInterview
        /\ apps[i] = [NewApplication(apps[i].applicantID, apps[i].jobID)
                         EXCEPT !.status = StatusInterview]
        /\ k # i
        /\ apps[k] = NewApplication(apps[k].applicantID, apps[k].jobID)

\* C23: a company actor that is not the creator of an application's job gets
\* the Forbidden answer to UpdateApplicationStatus for every requested status
\* of the five and every stored status of the application, and nothing is
\* written; so its answers for two applications of jobs it does not own, or
\* for one application before and after its status changed, are the same.
C23_OwnershipBeforeTransition ==
    \A actor \in Actors, status \in Statuses :
        LET NotOwned == {i \in DOMAIN apps : /\ apps[i].jobID \in DOMAIN jobs
                                             /\ jobs[apps[i].jobID].createdBy # actor}
        IN /\ \A i \in NotOwned :
                 LET r == UpdateApplicationStatusResult(actor, i, status) IN
                 /\ r.apps = apps
                 /\ r.resp = Response("UpdateApplicationStatus",
                                      IF RoleOf(actor) = Company THEN 400 ELSE 403,
                                      "Forbidden")
           /\ Cardinality({UpdateApplicationStatusResult(actor, i, status).resp :
                               i \in NotOwned}) <= 1

C23_Witness ==
    \E actor, owner \in Actors, i \in DOMAIN apps :
        /\ RoleOf(actor) = Company
        /\ apps[i].status = StatusHired
        /\ apps[i].jobID \in DOMAIN jobs
        /\ jobs[apps[i].jobID].createdBy = owner
        /\ actor # owner
        /\ UpdateApplicationStatusResult(owner, i, StatusReviewed).resp.message
              = "Invalid status transition"
        /\ UpdateApplicationStatusResult(actor, i, StatusReviewed).resp.message
              = "Forbidden"

\* C24: when handlers run one at a time, the status of every stored
\* application is one of Applied, Reviewed, Interview, Rejected, Hired, and an
\* UpdateApplicationStatus request whose status is the empty string or any
\* other string is rejected without a write.
C24_StoredStatusInEnum ==
    /\ \A i \in DOMAIN apps : apps[i].status \in Statuses
    /\ \A actor \in Actors, applicationID \in AppIdInputs,
          status \in SomeStatuses \ Statuses :
          LET r == UpdateApplicationStatusResult(actor, applicationID, status) IN
          /\ r.apps = apps
          /\ r.resp.http # 200

C24_Witness ==
    \E actor \in Actors, i \in DOMAIN apps :
        /\ apps[i].status = StatusInterview
        /\ apps[i].jobID \in DOMAIN jobs
        /\ jobs[apps[i].jobID].createdBy = actor
        /\ \A status \in SomeStatuses \ Statuses :
              UpdateApplicationStatusResult(actor, i, status).resp
                  = Response("UpdateApplicationStatus", 400, "Validation failed")

\* C25: a successful UpdateJob keeps the stored title, description and
\* location of the job for each of them the request does not supply, and
\* never changes the job's creator or the set of stored job ids.
C25_PartialUpdateKeepsFields ==
    \A actor \in Actors, j \in DOMAIN jobs, req \in UpdateJobRequests :
        LET r == UpdateJobResult(actor, j, req) IN
        r.resp.http = 200 =>
            /\ DOMAIN r.jobs = DOMAIN jobs
            /\ r.jobs[j].createdBy = jobs[j].createdBy
            /\ req.title = NULL => r.jobs[j].title = jobs[j].title
            /\ req.description = NULL => r.jobs[j].description = jobs[j].description
            /\ req.location = NULL => r.jobs[j].location = jobs[j].location

\* C26: the job a company actor creates with is_published = true is stored
\* published, and after a successful UpdateJob that supplies is_published
\* the stored flag of the job equals the supplied value.
C26_PublishedFlagStored ==
    /\ \A actor \in Actors, title \in Texts, description \in Texts,
          location \in Texts :
          LET r == CreateJobResult(actor, title, description, location, TRUE) IN
          \A j \in DOMAIN r.jobs \ DOMAIN jobs : r.jobs[j].isPublished = TRUE
    /\ \A actor \in Actors, j \in DOMAIN jobs, req \in UpdateJobRequests :
          LET r == UpdateJobResult(actor, j, req) IN
          (r.resp.http = 200 /\ req.isPublished # NULL)
              => r.jobs[j].isPublished = (req.isPublished = "true")

\* C27: GetJobDetails of a stored unpublished job answers its creator with
\* the job and every other actor with no job data and the very answer it
\* gives for a well-formed job id that no job is stored under.
C27_UnpublishedHiddenFromNonOwner ==
    \A actor \in Actors, j \in DOMAIN jobs :
        ~jobs[j].isPublished =>
            LET r == GetJobDetailsResult(actor, j) IN
            IF jobs[j].createdBy = actor
            THEN r.resp.http = 200 /\ r.data = j
            ELSE /\ r.data = NULL
                 /\ r.resp = GetJobDetailsResult(actor, GhostID).resp

\* C28: GetJobApplications of a stored job answers the job's creator with
\* exactly the stored applications of that job, and every other actor with a
\* Forbidden rejection that lists no application.
C28_ApplicationsListedToOwnerOnly ==
    \A actor \in Actors, j \in DOMAIN jobs :
        LET r == GetJobApplicationsResult(actor, j) IN
        IF jobs[j].createdBy = actor
        THEN /\ r.resp.http = 200
             /\ r.data = {i \in DOMAIN apps : apps[i].jobID = j}
        ELSE /\ r.resp.message = "Forbidden"
             /\ r.resp.http # 200
             /\ r.data = {}

C28_Witness ==
    \E actor, owner \in Actors, i \in DOMAIN apps :
        /\ RoleOf(actor) = Company
        /\ apps[i].jobID \in DOMAIN jobs
        /\ jobs[apps[i].jobID].createdBy = owner
        /\ actor # owner
        /\ i \in GetJobApplicationsResult(owner, apps[i].jobID).data
        /\ GetJobApplicationsResult(actor, apps[i].jobID)
              = [resp |-> Response("GetJobApplications", 400, "Forbidden"), data |-> {}]

\* C29: Login with an address no user has and Login with a stored user's
\* address and a password that user did not sign up with get one and the same
\* answer, 401 "Invalid email or password" without a token; an answer carries
\* a token only for a stored user that has the address and signed up with
\* the password, and the token names that user.
C29_LoginFailuresIndistinguishable ==
    \A email \in SomeEmails, password \in Passwords :
        LET known == {u \in DOMAIN users : users[u].email = email}
            matching == {u \in known : users[u].password = HashPassword(password)}
            failure == [resp |-> Response("Login", 401, "Invalid email or password"),
                        token |-> NULL]
        IN /\ matching = {} => LoginResults(email, password) = {failure}
           /\ \A r \in LoginResults(email, password) :
                 r # failure => r.resp.http = 200 /\ r.token \in matching

C29_Witness ==
    \E known, unknown \in SomeEmails :
        /\ userRepo_FindByEmail(known) # {}
        /\ userRepo_FindByEmail(unknown) = {}
        /\ LoginResults(known, "Wrong1!") = LoginResults(unknown, "Wrong1!")
        /\ LoginResults(unknown, SignUpPassword) = LoginResults(unknown, "Wrong1!")
        /\ \E r \in LoginResults(known, SignUpPassword) : r.token \in DOMAIN users

\* C30: the write of UpdateApplicationStatus does not look at the job again.
\* A call that has passed the ownership check always goes on to store the
\* requested status, also when DeleteJob has removed the application's job
\* in between, and the write does not bring the job back.
C30_WriteAfterJobDeleted ==
    [][\A p \in Procs :
          (procs[p].pc = "upd_write" /\ procs'[p] # procs[p])
          => /\ procs'[p].pc = "upd_reread"
             /\ apps'[procs[p].applicationID].status = procs[p].req
             /\ jobs' = jobs]_vars

\* the ownership check has passed, the job has since been deleted, the write
\* is still to come
C30_Witness ==
    \E p \in Procs :
        /\ procs[p].pc = "upd_write"
        /\ procs[p].jobID \in 1 .. jobSeq
        /\ procs[p].jobID \notin DOMAIN jobs
        /\ apps[procs[p].applicationID].jobID = procs[p].jobID
        /\ apps[procs[p].applicationID].status # procs[p].req

====
